---- MODULE Spec2Model ----
(***************************************************************************)
(* vulnix: the NVD cache (src/vulnix/nvd.py) and the derivation matcher    *)
(* (src/vulnix/derivation.py).                                             *)
(*                                                                         *)
(* A Python str is a sequence of one-character strings, a dict or an       *)
(* OOBTree is a function, a list is a sequence.  The ZODB file storage is  *)
(* `disk` (the last committed root object), the open connection's root is  *)
(* `root`; transaction.commit() copies root to disk, transaction.abort()   *)
(* drops root.  Time is counted in hours since the epoch.                  *)
(***************************************************************************)
EXTENDS Integers, Sequences, FiniteSets, TLC

VARIABLES
    disk,       \* committed root object of Data.fs
    root,       \* root object of the open connection (NoRoot when closed)
    pc,         \* position of the process in a session
    todo,       \* update(): archives the loop has still to visit
    plan,       \* update(): the list relevant_archives() returned
    fetched,    \* update(): the archives requested so far, in order
    codes,      \* update(): the status codes received so far
    now,        \* datetime.now(), in hours
    drv,        \* the Derive object of the last Derive.check()
    result,     \* value returned by the last Derive.check()
    consulted,  \* product names the last Derive.check() passed to affected()
    answered,   \* whether a check() call was answered in this session
    lastExit,   \* how the last session ended, until the next one is entered
    lastRun,    \* time and freshness of the last committed update()
    latest,     \* per CVE id, the advisory ingested last in this session
    dropped,    \* <<product, id>> listed by a superseded version only
    sessions,   \* number of sessions entered
    ticks,      \* number of clock steps taken
    packs,      \* number of times the store was packed
    clean,      \* number of sessions that exited without an exception
    tagged,     \* per URL, the advisories of the response whose ETag
                \* this session stored
    lock,       \* the process that holds Data.fs.lock
    peer,       \* a second process on the same cache directory
    args,       \* the arguments of the call under study
    outcome     \* what that call returned or raised

vars == <<disk, root, pc, todo, plan, fetched, codes, now, drv, result, consulted,
          answered, lastExit, lastRun, latest, dropped,
          sessions, ticks, packs, clean, tagged, lock, peer, args, outcome>>

(***************************** bounds **************************************)
MaxItems == 1       \* well-formed CVE_Items per feed document
MaxSessions == 3    \* sessions per behaviour
MaxTicks == 1       \* clock steps per behaviour
MaxPackSessions == 27   \* sessions per behaviour, where packing is studied

(***************************** text ****************************************)
UpperLetters == <<"A","B","C","D","E","F","G","H","I","J","K","L","M",
                  "N","O","P","Q","R","S","T","U","V","W","X","Y","Z">>
LowerLetters == <<"a","b","c","d","e","f","g","h","i","j","k","l","m",
                  "n","o","p","q","r","s","t","u","v","w","x","y","z">>
DigitChars == <<"0","1","2","3","4","5","6","7","8","9">>

\* code points in ascending order, for the characters the model uses
CodeOrder == <<" ", "-", ".">> \o DigitChars \o UpperLetters
             \o <<"_">> \o LowerLetters

Ord(c) == CHOOSE i \in 1..Len(CodeOrder) : CodeOrder[i] = c

IsDigit(c) == \E i \in 1..Len(DigitChars) : DigitChars[i] = c

IsSpace(c) == c = " "

\* str.upper() and str.lower(), one character
UpperChar(c) ==
    IF \E i \in 1..26 : LowerLetters[i] = c
    THEN UpperLetters[CHOOSE i \in 1..26 : LowerLetters[i] = c]
    ELSE c

LowerChar(c) ==
    IF \E i \in 1..26 : UpperLetters[i] = c
    THEN LowerLetters[CHOOSE i \in 1..26 : UpperLetters[i] = c]
    ELSE c

upper(s) == [i \in 1..Len(s) |-> UpperChar(s[i])]

lower(s) == [i \in 1..Len(s) |-> LowerChar(s[i])]

\* str.endswith(e)
endswith(s, e) ==
    /\ Len(e) <= Len(s)
    /\ SubSeq(s, Len(s) - Len(e) + 1, Len(s)) = e

\* str.replace(old, new) for one-character old and new
replace(s, old, new) == [i \in 1..Len(s) |-> IF s[i] = old THEN new ELSE s[i]]

\* s < t on Python str (lexicographic by code point)
RECURSIVE StrLess(_, _)
StrLess(s, t) ==
    IF t = <<>> THEN FALSE
    ELSE IF s = <<>> THEN TRUE
    ELSE IF Head(s) # Head(t) THEN Ord(Head(s)) < Ord(Head(t))
    ELSE StrLess(Tail(s), Tail(t))

\* the keys of an OOBTree in iteration order
RECURSIVE SortedKeys(_)
SortedKeys(S) ==
    IF S = {} THEN <<>>
    ELSE LET m == CHOOSE k \in S : \A o \in S \ {k} : StrLess(k, o)
         IN  <<m>> \o SortedKeys(S \ {m})

\* d[k] = v on a dict
Put(d, k, v) == [x \in DOMAIN d \cup {k} |-> IF x = k THEN v ELSE d[x]]

\* del d[k]
Del(d, k) == [x \in DOMAIN d \ {k} |-> d[x]]

EmptyDict == <<>>

(***************************** Vulnerability *******************************)
\* A feed item is [ok, cve_id, nodes]; ok = FALSE is an item that
\* Vulnerability.parse rejects with ValueError.  A node is
\* [product, versions], versions being the set of version strings the
\* node's version predicate accepts.

\* Vulnerability.parse(item), for an item it accepts
VulnerabilityParse(item) == [cve_id |-> item.cve_id, nodes |-> item.nodes]

\* Vulnerability.match(pname, version)
match(vuln, pname, version) ==
    \E i \in 1..Len(vuln.nodes) :
        /\ vuln.nodes[i].product = pname
        /\ version \in vuln.nodes[i].versions

(***************************** Meta ****************************************)
Epoch == 0
PackThreshold == 25

MetaDefault == [pack_counter |-> 0, last_update |-> Epoch, etag |-> EmptyDict]

\* Meta.should_pack(): the new Meta and the value returned.  etag = None
\* and an empty etag tree are both EmptyDict: the code never stores an
\* empty tree and tests only the truth value.
should_pack(meta) ==
    LET counted == [meta EXCEPT !.pack_counter = @ + 1]
    IN  IF counted.pack_counter > PackThreshold
        THEN [meta |-> [counted EXCEPT !.pack_counter = 0], ret |-> TRUE]
        ELSE [meta |-> counted, ret |-> FALSE]

\* Meta.headers_for(url)
headers_for(meta, url) ==
    IF meta.etag # EmptyDict /\ url \in DOMAIN meta.etag
    THEN [h \in {"If-None-Match"} |-> meta.etag[url]]
    ELSE EmptyDict

\* Meta.update_headers_for(url, resp_headers)
update_headers_for(meta, url, resp_headers) ==
    IF "ETag" \in DOMAIN resp_headers
    THEN [meta EXCEPT !.etag = Put(@, url, resp_headers["ETag"])]
    ELSE meta

(***************************** Archive *************************************)
Modified == <<"modified", 0>>
YearArchive(y) == <<"year", y>>

\* mirror + Archive.download_uri
Url(name) == <<"https://nvd.nist.gov/feeds/json/cve/1.1/", "nvdcve-1.1-",
               name, ".json.gz">>

\* Archive.parse(nvd_json): items is raw['CVE_Items']
RECURSIVE ArchiveParse(_, _)
ArchiveParse(advisories, items) ==
    IF items = <<>> THEN advisories
    ELSE LET item == Head(items)
         IN  ArchiveParse(IF item.ok
                          THEN Put(advisories, item.cve_id,
                                   VulnerabilityParse(item))
                          ELSE advisories,
                          Tail(items))

\* requests.Response.raise_for_status() raises
raise_for_status(status) == status >= 400 /\ status < 600

\* faulty variant of download: fresh content does not move last_update
download_keeps_last_update(name, meta, r, t) ==
    IF raise_for_status(r.status)
    THEN [raised |-> TRUE, advisories |-> EmptyDict, meta |-> meta]
    ELSE IF r.status = 200
    THEN [raised |-> FALSE,
          advisories |-> ArchiveParse(EmptyDict, r.content),
          meta |-> update_headers_for(meta, Url(name), r.headers)]
    ELSE [raised |-> FALSE, advisories |-> EmptyDict, meta |-> meta]

\* Archive.download(mirror, metadata) on the response r: whether it raised,
\* the archive's advisories and the metadata afterwards
download(name, meta, r, t) ==
    IF raise_for_status(r.status)
    THEN [raised |-> TRUE, advisories |-> EmptyDict, meta |-> meta]
    ELSE IF r.status = 200
    THEN [raised |-> FALSE,
          advisories |-> ArchiveParse(EmptyDict, r.content),
          meta |-> [update_headers_for(meta, Url(name), r.headers)
                        EXCEPT !.last_update = t]]
    ELSE [raised |-> FALSE, advisories |-> EmptyDict, meta |-> meta]

(***************************** NVD *****************************************)
Hour == 1
Week == 7 * 24
current == 2026

\* NVD.__init__: available_archives
available_archives == [i \in 1..6 |-> YearArchive(current - 5 + (i - 1))]

NoRoot == <<>>

SetDefault(d, k, v) == IF k \in DOMAIN d THEN d ELSE Put(d, k, v)

\* faulty variant of locked: the lock file is not looked at
locked_never(holder) == FALSE

\* FileStorage(path) raises LockError: another storage object holds the
\* lock file Data.fs.lock of the cache directory
locked(holder) == holder # "nobody"

\* NVD.__enter__: the root object of the new connection
enter(stored) ==
    Del(SetDefault(SetDefault(SetDefault(stored,
            "advisory", EmptyDict),
            "by_product", EmptyDict),
            "meta", MetaDefault),
        "archives")

\* faulty variant of relevant_archives: 'modified' comes first in a full
\* refresh
relevant_archives_modified_first(r, t) ==
    LET last_update == r["meta"].last_update
    IN  IF last_update > t - Hour THEN <<>>
        ELSE IF last_update > t - Week THEN <<Modified>>
        ELSE <<Modified>> \o available_archives

\* NVD.relevant_archives()
relevant_archives(r, t) ==
    LET last_update == r["meta"].last_update
    IN  IF last_update > t - Hour THEN <<>>
        ELSE IF last_update > t - Week THEN <<Modified>>
        ELSE available_archives \o <<Modified>>

\* faulty variant of add: the archive's advisories take the place of the
\* tree
add_replaces_tree(advisories, archive) == archive

\* faulty variant of add: an id already stored keeps its record
add_keeps_stored(advisories, archive) ==
    [k \in DOMAIN advisories \cup DOMAIN archive |->
        IF k \in DOMAIN advisories THEN advisories[k] ELSE archive[k]]

\* NVD.add(archive): the advisory tree afterwards
add(advisories, archive) ==
    [k \in DOMAIN advisories \cup DOMAIN archive |->
        IF k \in DOMAIN archive THEN archive[k] ELSE advisories[k]]

\* one pass of the loop of NVD.update() for archive a, the mirror
\* answering with resp: whether download() raised, the root afterwards and
\* the advisories the archive parsed
update_pass(r, a, resp, t) ==
    LET d == download(a, r["meta"], resp, t)
    IN  IF d.raised
        THEN [raised |-> TRUE, root |-> r, advisories |-> EmptyDict]
        ELSE [raised |-> FALSE,
              root |-> Put(Put(r, "meta", d.meta), "advisory",
                           add(r["advisory"], d.advisories)),
              advisories |-> d.advisories]

RECURSIVE IndexNodes(_, _, _)
IndexNodes(bp, vuln, i) ==
    IF i > Len(vuln.nodes) THEN bp
    ELSE LET prod == vuln.nodes[i].product
             bp1 == IF prod \notin DOMAIN bp THEN Put(bp, prod, <<>>) ELSE bp
         IN  IndexNodes(Put(bp1, prod, Append(bp1[prod], vuln)), vuln, i + 1)

RECURSIVE IndexVulns(_, _, _)
IndexVulns(bp, advisories, keys) ==
    IF keys = <<>> THEN bp
    ELSE IndexVulns(IndexNodes(bp, advisories[Head(keys)], 1),
                    advisories, Tail(keys))

\* faulty variant of reindex: the index is left as it is
reindex_skipped(r) == r

\* NVD.reindex(): the root afterwards
reindex(r) ==
    Put(Del(r, "by_product"), "by_product",
        IndexVulns(EmptyDict, r["advisory"], SortedKeys(DOMAIN r["advisory"])))

\* NVD.update() with the mirror answering the request for archive a with
\* answers[a]: whether it raised, the root afterwards, the archives asked for
RECURSIVE UpdateLoop(_, _, _, _, _)
UpdateLoop(r, archives, answers, t, done) ==
    IF archives = <<>>
    THEN [raised |-> FALSE, root |-> reindex(r), fetched |-> done]
    ELSE LET a == Head(archives)
             p == update_pass(r, a, answers[a], t)
         IN  IF p.raised
             THEN [raised |-> TRUE, root |-> r, fetched |-> Append(done, a)]
             ELSE UpdateLoop(p.root, Tail(archives), answers, t,
                             Append(done, a))

update(r, t, answers) ==
    UpdateLoop(r, relevant_archives(r, t), answers, t, <<>>)

\* NVD.by_id(cve_id); KeyError is the value "KeyError"
by_id(r, cve_id) ==
    IF cve_id \in DOMAIN r["advisory"] THEN r["advisory"][cve_id]
    ELSE "KeyError"

\* NVD.by_product(product)
by_product(r, product) ==
    IF product \in DOMAIN r["by_product"] THEN r["by_product"][product]
    ELSE <<>>

\* faulty variant of by_product_root: a product that is not indexed gets
\* an empty list, as bp[prod] = [] in reindex() or a setdefault would do
by_product_root_inserts(r, product) ==
    IF product \in DOMAIN r["by_product"] THEN r
    ELSE Put(r, "by_product", Put(r["by_product"], product, <<>>))

\* the root after NVD.by_product(product): the subscript reads the tree,
\* and a KeyError is answered with a new list that is not stored
by_product_root(r, product) == r

\* NVD.affected(pname, version)
affected(r, pname, version) ==
    LET vulns == by_product(r, pname)
    IN  {vulns[i] : i \in {j \in 1..Len(vulns) : match(vulns[j], pname, version)}}

\* faulty variant of exit: on failure the records are rolled back and the
\* metadata (validators, last_update) is written all the same
exit_keeps_validators(stored, r, failed) ==
    IF ~failed
    THEN LET sp == should_pack(r["meta"])
         IN  [disk |-> Put(r, "meta", sp.meta), packed |-> sp.ret]
    ELSE [disk |-> Put(enter(stored), "meta", r["meta"]), packed |-> FALSE]

\* faulty variant of exit: the transaction is committed on failure too
exit_always_commits(stored, r, failed) ==
    LET sp == should_pack(r["meta"])
    IN  [disk |-> Put(r, "meta", sp.meta), packed |-> sp.ret]

\* NVD.__exit__: the committed root afterwards and whether the store was
\* packed.  Packing rewrites Data.fs without the superseded object
\* revisions; the current revision of every object stays as it is.
exit(stored, r, failed) ==
    IF ~failed
    THEN LET sp == should_pack(r["meta"])
         IN  [disk |-> Put(r, "meta", sp.meta), packed |-> sp.ret]
    ELSE [disk |-> stored, packed |-> FALSE]

(***************************** Derive **************************************)
NoVersion == <<>>   \* None

\* R_VERSION.match(s): the index of the '-' that ends group 1, or 0.
\* (\S+?) takes the shortest non-empty prefix that a '-' and a digit follow;
\* \S on both sides of it rules out any string holding white space.
VersionDash(s) ==
    LET dashes == {i \in 2..(Len(s) - 1) : s[i] = "-" /\ IsDigit(s[i + 1])}
    IN  IF dashes = {} \/ \E i \in 1..Len(s) : IsSpace(s[i]) THEN 0
        ELSE CHOOSE i \in dashes : \A j \in dashes : i <= j

DrvSuffix == <<".", "d", "r", "v">>

\* split_name(fullname)
split_name(fullname) ==
    LET lowered == lower(fullname)
        name == IF endswith(lowered, DrvSuffix)
                THEN SubSeq(lowered, 1, Len(lowered) - 4)
                ELSE lowered
        dash == VersionDash(name)
    IN  IF dash # 0
        THEN [pname |-> SubSeq(name, 1, dash - 1),
              version |-> SubSeq(name, dash + 1, Len(name))]
        ELSE [pname |-> name, version |-> NoVersion]

SkipExtensions ==
    << <<".", "t", "a", "r", ".", "g", "z">>,
       <<".", "t", "a", "r", ".", "b", "z", "2">>,
       <<".", "t", "a", "r", ".", "x", "z">>,
       <<".", "z", "i", "p">>,
       <<".", "p", "a", "t", "c", "h">>,
       <<".", "d", "i", "f", "f">> >>

\* Derive.__init__(name=..., patches=...); skip = TRUE is SkipDrv
Derive(name, patches) ==
    LET sn == split_name(name)
    IN  IF \E i \in 1..Len(SkipExtensions) : endswith(name, SkipExtensions[i])
        THEN [skip |-> TRUE, name |-> name, pname |-> <<>>,
              version |-> NoVersion, patches |-> <<>>]
        ELSE IF sn.version = NoVersion
        THEN [skip |-> TRUE, name |-> name, pname |-> sn.pname,
              version |-> NoVersion, patches |-> <<>>]
        ELSE [skip |-> FALSE, name |-> name, pname |-> sn.pname,
              version |-> sn.version, patches |-> patches]

\* compare_versions(a, b) of vulnix.utils: the versions are cut into
\* maximal runs of digits and of other characters; runs at the same place
\* are compared, two runs of digits (or one and a missing run) by number,
\* else by code point, a missing run before any run of other characters;
\* the run 'pre' comes before every other run (2.0pre < 2.0).
RECURSIVE RunEnd(_, _, _)
RunEnd(s, i, digits) ==
    IF i <= Len(s) /\ IsDigit(s[i]) = digits THEN RunEnd(s, i + 1, digits)
    ELSE i - 1

RECURSIVE Runs(_, _)
Runs(s, i) ==
    IF i > Len(s) THEN <<>>
    ELSE LET e == RunEnd(s, i, IsDigit(s[i]))
         IN  <<SubSeq(s, i, e)>> \o Runs(s, e + 1)

DigitValue(c) == (CHOOSE i \in 1..Len(DigitChars) : DigitChars[i] = c) - 1

RECURSIVE Number(_)
Number(run) ==
    IF run = <<>> THEN 0
    ELSE 10 * Number(SubSeq(run, 1, Len(run) - 1)) + DigitValue(run[Len(run)])

IsNumber(run) == \A i \in 1..Len(run) : IsDigit(run[i])

PreRun == <<"p", "r", "e">>

CompareRuns(x, y) ==
    IF IsNumber(x) /\ IsNumber(y)
    THEN IF Number(x) < Number(y) THEN -1
         ELSE IF Number(x) > Number(y) THEN 1 ELSE 0
    ELSE IF x = PreRun /\ y # PreRun THEN -1
    ELSE IF y = PreRun /\ x # PreRun THEN 1
    ELSE IF StrLess(x, y) THEN -1
    ELSE IF StrLess(y, x) THEN 1 ELSE 0

RECURSIVE CompareFrom(_, _, _)
CompareFrom(xs, ys, i) ==
    IF i > Len(xs) /\ i > Len(ys) THEN 0
    ELSE LET x == IF i <= Len(xs) THEN xs[i] ELSE <<>>
             y == IF i <= Len(ys) THEN ys[i] ELSE <<>>
             c == CompareRuns(x, y)
         IN  IF c # 0 THEN c ELSE CompareFrom(xs, ys, i + 1)

compare_versions(a, b) == CompareFrom(Runs(a, 1), Runs(b, 1), 1)

\* Derive.__lt__(self, other)
lt(self, other) ==
    IF StrLess(self.pname, other.pname) THEN TRUE
    ELSE IF StrLess(other.pname, self.pname) THEN FALSE
    ELSE compare_versions(self.version, other.version) = -1

\* Derive.__gt__(self, other)
gt(self, other) ==
    IF StrLess(other.pname, self.pname) THEN TRUE
    ELSE IF StrLess(self.pname, other.pname) THEN TRUE
    ELSE compare_versions(self.version, other.version) = 1

\* faulty variant of product_candidates: the alternative spelling first
product_candidates_swapped(pname) ==
    LET alternative == replace(pname, "-", "_")
    IN  IF alternative # pname THEN <<alternative, pname>> ELSE <<pname>>

\* Derive.product_candidates()
product_candidates(pname) ==
    LET alternative == replace(pname, "-", "_")
    IN  IF alternative # pname THEN <<pname, alternative>> ELSE <<pname>>

\* the longest run of digits of text that starts at j ends at DigitsEnd
RECURSIVE DigitsEnd(_, _)
DigitsEnd(text, j) ==
    IF j <= Len(text) /\ IsDigit(text[j]) THEN DigitsEnd(text, j + 1) ELSE j - 1

\* R_CVE matched at index i of text: the index of the last character of
\* the match, or 0
CveMatchEnd(text, i) ==
    IF /\ i + 9 <= Len(text)
       /\ lower(SubSeq(text, i, i + 2)) = <<"c", "v", "e">>
       /\ text[i + 3] = "-"
       /\ \A k \in (i + 4)..(i + 7) : IsDigit(text[k])
       /\ text[i + 8] = "-"
       /\ IsDigit(text[i + 9])
    THEN DigitsEnd(text, i + 9)
    ELSE 0

\* R_CVE.finditer(text) from index i on: the matched substrings
RECURSIVE CveFindIter(_, _)
CveFindIter(text, i) ==
    IF i > Len(text) THEN {}
    ELSE LET e == CveMatchEnd(text, i)
         IN  IF e = 0 THEN CveFindIter(text, i + 1)
             ELSE {SubSeq(text, i, e)} \cup CveFindIter(text, e + 1)

\* faulty variant of applied_patches: the matches are not upper-cased
applied_patches_verbatim(patches) == CveFindIter(patches, 1)

\* Derive.applied_patches()
applied_patches(patches) == {upper(m) : m \in CveFindIter(patches, 1)}

\* Derive.check(nvd): the loop over the product candidates; ret is the
\* value returned, consulted the names passed to nvd.affected()
RECURSIVE CheckLoop(_, _, _, _, _)
CheckLoop(d, r, candidates, affected_by, seen) ==
    IF candidates = <<>> THEN [ret |-> affected_by, consulted |-> seen]
    ELSE LET pname == Head(candidates)
             patched_cves == applied_patches(d.patches)
             found == affected_by \cup
                      {vuln \in affected(r, pname, d.version) :
                           vuln.cve_id \notin patched_cves}
         IN  IF found # {}
             THEN [ret |-> found, consulted |-> Append(seen, pname)]
             ELSE CheckLoop(d, r, Tail(candidates), found, Append(seen, pname))

\* faulty variant of check: every candidate is tried and the matches merged
RECURSIVE CheckEvery(_, _, _, _, _)
CheckEvery(d, r, candidates, affected_by, seen) ==
    IF candidates = <<>> THEN [ret |-> affected_by, consulted |-> seen]
    ELSE LET pname == Head(candidates)
             patched_cves == applied_patches(d.patches)
             found == affected_by \cup
                      {vuln \in affected(r, pname, d.version) :
                           vuln.cve_id \notin patched_cves}
         IN  CheckEvery(d, r, Tail(candidates), found, Append(seen, pname))

check_merges_candidates(d, r) ==
    CheckEvery(d, r, product_candidates(d.pname), {}, <<>>)

check(d, r) == CheckLoop(d, r, product_candidates(d.pname), {}, <<>>)

\* the root after Derive.check(nvd): nvd.affected() calls by_product() once
\* for every product name passed to it, and nothing else touches the root
RECURSIVE RootAfter(_, _)
RootAfter(r, names) ==
    IF names = <<>> THEN r
    ELSE RootAfter(by_product_root(r, Head(names)), Tail(names))

check_root(d, r) == RootAfter(r, check(d, r).consulted)

(***************************** feed and inputs *****************************)
CVE1 == <<"C", "V", "E", "-", "2", "0", "2", "1", "-", "1">>
CVE2 == <<"C", "V", "E", "-", "2", "0", "2", "1", "-", "2">>
FooBar == <<"f", "o", "o", "-", "b", "a", "r">>
Foo_Bar == <<"f", "o", "o", "_", "b", "a", "r">>
V10 == <<"1", ".", "0">>
V20 == <<"2", ".", "0">>

Node(product, versions) == [product |-> product, versions |-> versions]
Item(cve_id, nodes) == [ok |-> TRUE, cve_id |-> cve_id, nodes |-> nodes]
BadItem == [ok |-> FALSE, cve_id |-> <<>>, nodes |-> <<>>]

\* the well-formed advisory items the mirror serves
FeedItems ==
    { Item(CVE1, <<Node(FooBar, {V10})>>),
      Item(CVE1, <<Node(Foo_Bar, {V10}), Node(Foo_Bar, {V20})>>),
      Item(CVE2, <<Node(FooBar, {V10})>>) }

RECURSIVE SeqsUpTo(_, _)
SeqsUpTo(S, n) ==
    IF n = 0 THEN {<<>>}
    ELSE LET shorter == SeqsUpTo(S, n - 1)
         IN  shorter \cup {Append(q, x) : q \in shorter, x \in S}

\* raw['CVE_Items'] of the documents the mirror serves: up to MaxItems
\* well-formed items, or two versions of one advisory, or a malformed item
\* beside a well-formed one
Contents ==
    SeqsUpTo(FeedItems, MaxItems)
    \cup {<<q[1], q[2]>> : q \in {w \in FeedItems \X FeedItems :
                                      w[1].cve_id = w[2].cve_id /\ w[1] # w[2]}}
    \cup {<<BadItem>>}
    \cup {<<BadItem, x>> : x \in FeedItems}
    \cup {<<x, BadItem>> : x \in FeedItems}
Tokens == {"etag-1", "etag-2"}
FailStatus == {500}

\* the archives the mirror serves with an entity tag
TaggedArchives == {Modified}

RespHeaders(name) ==
    {EmptyDict} \cup
    (IF name \in TaggedArchives
     THEN {[h \in {"ETag"} |-> t] : t \in Tokens} ELSE {})

\* the responses the mirror may give to a request for the archive with
\* these headers: 304 answers a conditional request only
Responses(name, req_headers) ==
    {[status |-> 200, content |-> c, headers |-> h] :
        c \in Contents, h \in RespHeaders(name)}
    \cup (IF req_headers # EmptyDict
          THEN {[status |-> 304, content |-> <<>>, headers |-> EmptyDict]}
          ELSE {})
    \cup {[status |-> st, content |-> <<>>, headers |-> EmptyDict] :
            st \in FailStatus}


\* the derivations the caller asks about
Queries == {Derive(FooBar \o <<"-">> \o V10, <<>>)}

Start == 10 * Week
Jumps == {Hour, Week - Hour, Week}
EmptyRoot == <<>>
NoExit == [how |-> "none", dirty |-> FALSE, tagged |-> FALSE]
NoDrv == Derive(<<>>, <<>>)
Nobody == "nobody"
NoPeer == [pc |-> "closed", root |-> NoRoot]
NoCall == <<>>

\* advisory trees a first session may have committed
SyncedAdvisories ==
    { ArchiveParse(EmptyDict, <<Item(CVE1, <<Node(FooBar, {V10})>>)>>),
      ArchiveParse(EmptyDict, <<Item(CVE1, <<Node(Foo_Bar, {V10})>>),
                                Item(CVE2, <<Node(FooBar, {V10})>>)>>) }

(***************************** history *************************************)
\* the accepted item of content that is last for id, when there is one
HasItem(content, id) ==
    \E i \in 1..Len(content) : content[i].ok /\ content[i].cve_id = id

LastItem(content, id) ==
    LET at == {i \in 1..Len(content) : content[i].ok /\ content[i].cve_id = id}
    IN  content[CHOOSE i \in at : \A j \in at : j <= i]

ProductsOf(v) == {v.nodes[i].product : i \in 1..Len(v.nodes)}

\* <<product, id>> pairs that a version of id listed and its successor in
\* the order of ingest (prev first, then the items of content) does not
RECURSIVE DroppedBy(_, _, _)
DroppedBy(prev, content, acc) ==
    IF content = <<>> THEN acc
    ELSE LET it == Head(content)
         IN  IF ~it.ok THEN DroppedBy(prev, Tail(content), acc)
             ELSE LET old == IF it.cve_id \in DOMAIN prev
                             THEN ProductsOf(prev[it.cve_id]) ELSE {}
                      gone == {<<p, it.cve_id>> : p \in old \ ProductsOf(it)}
                      back == {<<p, it.cve_id>> : p \in ProductsOf(it)}
                  IN  DroppedBy(Put(prev, it.cve_id, it), Tail(content),
                                (acc \cup gone) \ back)

(***************************** actions *************************************)
\* One process uses the cache directory.  A session is the body of one
\* with statement: __enter__, update(), any number of check() calls,
\* __exit__; that order is the caller's (spec section 5).  An exception in
\* the body reaches __exit__.  A session takes less than one clock step,
\* so every datetime.now() of a session reads the same hour.  The mirror
\* sends an ETag header with the 'modified' archive only, and answers 304
\* only to a request that carries If-None-Match.
InSession == {"entered", "update", "raised", "ready"}

Init ==
    /\ disk = EmptyRoot
    /\ root = NoRoot
    /\ pc = "closed"
    /\ todo = <<>>
    /\ plan = <<>>
    /\ fetched = <<>>
    /\ codes = {}
    /\ now = Start
    /\ drv = NoDrv
    /\ result = {}
    /\ consulted = <<>>
    /\ answered = FALSE
    /\ lastExit = NoExit
    /\ lastRun = [at |-> -1, fresh |-> FALSE]
    /\ latest = EmptyDict
    /\ dropped = {}
    /\ sessions = 0
    /\ ticks = 0
    /\ packs = 0
    /\ clean = 0
    /\ tagged = EmptyDict
    /\ lock = Nobody
    /\ peer = NoPeer
    /\ args = NoCall
    /\ outcome = NoCall

\* the clock advances between two sessions
Tick ==
    /\ pc = "closed"
    /\ ticks < MaxTicks
    /\ \E d \in Jumps : now' = now + d
    /\ ticks' = ticks + 1
    /\ UNCHANGED <<disk, root, pc, todo, plan, fetched, codes, drv, result,
                   consulted, answered, lastExit, lastRun, latest,
                   dropped, sessions, packs, clean, tagged, lock, peer,
                   args, outcome>>

\* with NVD(...) as nvd:, in a behaviour of at most n sessions
EnterUpTo(n) ==
    /\ pc = "closed"
    /\ sessions < n
    /\ ~locked(lock)
    /\ lock' = "self"
    /\ tagged' = EmptyDict
    /\ root' = enter(disk)
    /\ pc' = "entered"
    /\ lastExit' = NoExit
    /\ latest' = root'["advisory"]
    /\ dropped' = {}
    /\ sessions' = sessions + 1
    /\ UNCHANGED <<disk, todo, plan, fetched, codes, now, drv, result, consulted,
                   answered, lastRun, ticks, packs, clean, peer, args, outcome>>

Enter == EnterUpTo(MaxSessions)

\* nvd.update(), up to the loop
UpdateBegin ==
    /\ pc = "entered"
    /\ plan' = relevant_archives(root, now)
    /\ todo' = plan'
    /\ fetched' = <<>>
    /\ codes' = {}
    /\ pc' = "update"
    /\ UNCHANGED <<disk, root, now, drv, result, consulted, answered,
                   lastExit, lastRun, latest, dropped, sessions, ticks, packs,
                   clean, tagged, lock, peer, args, outcome>>

\* one pass of the loop of update(): download the archive and add it
UpdateArchive ==
    /\ pc = "update"
    /\ todo # <<>>
    /\ LET a == Head(todo)
           meta == root["meta"]
       IN  \E r \in Responses(a, headers_for(meta, Url(a))) :
             LET d == update_pass(root, a, r, now)
             IN  /\ fetched' = Append(fetched, a)
                 /\ codes' = codes \cup {r.status}
                 /\ IF d.raised
                    THEN /\ pc' = "raised"
                         /\ UNCHANGED <<root, todo, latest, dropped, tagged>>
                    ELSE /\ pc' = "update"
                         /\ todo' = Tail(todo)
                         /\ root' = d.root
                         /\ latest' =
                              [id \in DOMAIN latest \cup
                                      {r.content[i].cve_id :
                                         i \in {j \in 1..Len(r.content) :
                                                  r.content[j].ok}} |->
                                 IF HasItem(r.content, id)
                                 THEN VulnerabilityParse(LastItem(r.content, id))
                                 ELSE latest[id]]
                         /\ dropped' = DroppedBy(latest, r.content, dropped)
                         /\ tagged' =
                              IF r.status = 200 /\ "ETag" \in DOMAIN r.headers
                              THEN Put(tagged, Url(a), d.advisories)
                              ELSE tagged
    /\ UNCHANGED <<disk, plan, now, drv, result, consulted, answered,
                   lastExit, lastRun, sessions, ticks, packs,
                   clean, lock, peer, args, outcome>>

\* update(), after the loop
UpdateReindex ==
    /\ pc = "update"
    /\ todo = <<>>
    /\ root' = reindex(root)
    /\ pc' = "ready"
    /\ UNCHANGED <<disk, todo, plan, fetched, codes, now, drv, result, consulted,
                   answered, lastExit, lastRun, latest, dropped,
                   sessions, ticks, packs, clean, tagged, lock, peer,
                   args, outcome>>

\* derivation.check(nvd), after update() has returned
Query ==
    /\ pc = "ready"
    /\ \E d \in Queries :
         LET c == check(d, root)
         IN  /\ drv' = d
             /\ result' = c.ret
             /\ consulted' = c.consulted
             /\ root' = check_root(d, root)
    /\ answered' = TRUE
    /\ UNCHANGED <<disk, pc, todo, plan, fetched, codes, now,
                   lastExit, lastRun, latest, dropped, sessions, ticks, packs,
                   clean, tagged, lock, peer, args, outcome>>

\* NVD.__exit__: without an exception once the body of the with statement
\* is through, with one when update() raised or the body was interrupted
Exit(failed) ==
    /\ pc \in InSession
    /\ ~failed => pc = "ready"
    /\ pc = "raised" => failed
    /\ disk' = exit(disk, root, failed).disk
    /\ root' = NoRoot
    /\ pc' = "closed"
    /\ lastExit' = [how |-> IF failed THEN "failed" ELSE "clean",
                    dirty |-> root["advisory"] # enter(disk)["advisory"],
                    tagged |-> tagged # EmptyDict]
    /\ lastRun' = IF failed THEN lastRun
                  ELSE [at |-> now, fresh |-> 200 \in codes]
    /\ todo' = <<>>
    /\ plan' = <<>>
    /\ fetched' = <<>>
    /\ codes' = {}
    /\ drv' = NoDrv
    /\ result' = {}
    /\ consulted' = <<>>
    /\ answered' = FALSE
    /\ latest' = EmptyDict
    /\ dropped' = {}
    /\ packs' = IF exit(disk, root, failed).packed THEN packs + 1 ELSE packs
    /\ clean' = IF failed THEN clean ELSE clean + 1
    /\ tagged' = EmptyDict
    /\ lock' = Nobody
    /\ UNCHANGED <<now, sessions, ticks, peer, args, outcome>>

ExitClean == Exit(FALSE)
ExitFailed == Exit(TRUE)

Next ==
    \/ Tick
    \/ Enter
    \/ UpdateBegin
    \/ UpdateArchive
    \/ UpdateReindex
    \/ Query
    \/ ExitClean
    \/ ExitFailed

Spec == Init /\ [][Next]_vars

(***************************** properties **********************************)
Updating == pc \in {"update", "raised", "ready"}

\* what the session found in the store when it was entered
StoredMeta == IF "meta" \in DOMAIN disk THEN disk["meta"] ELSE MetaDefault
StoredAdvisory == IF "advisory" \in DOMAIN disk THEN disk["advisory"] ELSE EmptyDict
StoredIndex == IF "by_product" \in DOMAIN disk THEN disk["by_product"] ELSE EmptyDict

Products == {FooBar, Foo_Bar}
Records(r) == {r["advisory"][id] : id \in DOMAIN r["advisory"]}
Listed(r, p) == {v \in Records(r) : p \in ProductsOf(v)}
Indexed(r, p) == {by_product(r, p)[i] : i \in 1..Len(by_product(r, p))}

\* the archives the sync decision rule names for an age of the last update
SixYears == <<YearArchive(current - 5), YearArchive(current - 4),
              YearArchive(current - 3), YearArchive(current - 2),
              YearArchive(current - 1), YearArchive(current)>>

Due(age) ==
    IF age < Hour THEN <<>>
    ELSE IF age < Week THEN <<Modified>>
    ELSE SixYears \o <<Modified>>

\* C1 (first sentence, holds): relevant_archives() returns nothing when the
\* last update is less than an hour old, ['modified'] when it is less than
\* seven days old, and else the six yearly archives and 'modified'.
C1_Decision == Updating => plan = Due(now - StoredMeta.last_update)

\* C1: relevant_archives() follows the decision rule, and update(), once
\* it is over, has fetched exactly the archives of that list.
C1_FetchesExactlyTheList ==
    /\ C1_Decision
    /\ pc \in {"raised", "ready"} => fetched = plan

\* C2: a failed fetch of one archive leaves the cached records as they are
\* and does not end the run: update() goes on with the remaining archives.
C2_FailureAbsorbed ==
    (\E st \in codes : raise_for_status(st)) =>
        /\ pc \in {"update", "ready"}
        /\ pc = "ready" => fetched = plan

SameStore ==
    /\ root["advisory"] = StoredAdvisory
    /\ \A p \in Products : Indexed(root, p) = {v \in Records(disk) : p \in ProductsOf(v)}
    /\ root["meta"].etag = StoredMeta.etag
    /\ root["meta"].last_update = StoredMeta.last_update

\* C3: an update() that follows a committed update() in the same hour
\* makes no fetch and leaves records, index, validators and lastUpdate
\* as they are, whatever the responses of the first run were.
C3_Idempotent ==
    (Updating /\ lastRun.at = now) =>
        (plan = <<>> /\ fetched = <<>> /\ (pc = "ready" => SameStore))

\* C3 amended: the same, for a first run that received fresh content
\* (status 200) from at least one archive.
C3_IdempotentAfterFresh ==
    (Updating /\ lastRun.at = now /\ lastRun.fresh) =>
        (plan = <<>> /\ fetched = <<>> /\ (pc = "ready" => SameStore))

C3_Witness ==
    /\ pc = "ready"
    /\ lastRun.at = now
    /\ lastRun.fresh
    /\ root["advisory"] # EmptyDict

\* C4: a session is atomic.  A clean exit commits the records, the index,
\* the validators, lastUpdate and the advanced compaction counter; a
\* failed exit leaves the committed store as it was; nothing is committed
\* before the exit, and the next session starts from the committed store.
C4_SessionAtomic ==
    /\ [][(pc \in InSession /\ pc' = "closed" /\ lastExit'.how = "clean") =>
            /\ disk'["advisory"] = root["advisory"]
            /\ disk'["by_product"] = root["by_product"]
            /\ disk'["meta"].etag = root["meta"].etag
            /\ disk'["meta"].last_update = root["meta"].last_update
            /\ disk'["meta"].pack_counter =
                 IF root["meta"].pack_counter >= PackThreshold THEN 0
                 ELSE root["meta"].pack_counter + 1]_vars
    /\ [][(pc \in InSession /\ pc' = "closed" /\ lastExit'.how = "failed") =>
            disk' = disk]_vars
    /\ [][pc' # "closed" => disk' = disk]_vars
    /\ [][(pc = "closed" /\ pc' = "entered") =>
            /\ root'["advisory"] = StoredAdvisory
            /\ root'["by_product"] = StoredIndex
            /\ root'["meta"] = StoredMeta]_vars

C4_Witness ==
    /\ pc = "closed"
    /\ lastExit.how = "failed"
    /\ lastExit.dirty
    /\ sessions > 1
    /\ StoredAdvisory # EmptyDict

Count(l, v) == Cardinality({i \in 1..Len(l) : l[i] = v})

\* C6: after a completed update() every stored record is returned by
\* by_id(), and by_product(p) holds exactly the stored records with a node
\* of product p, each of them once.
C6_IndexIsDerived ==
    pc = "ready" =>
        /\ \A id \in DOMAIN root["advisory"] :
              by_id(root, id) = root["advisory"][id]
        /\ \A p \in Products :
              /\ Indexed(root, p) = Listed(root, p)
              /\ \A v \in Listed(root, p) : Count(by_product(root, p), v) = 1

\* C6 without "each of them once" (holds): the set of records of
\* by_product(p) is the set of stored records that list p.
C6_IndexAsSets ==
    pc = "ready" =>
        /\ \A id \in DOMAIN root["advisory"] :
              by_id(root, id) = root["advisory"][id]
        /\ \A p \in Products : Indexed(root, p) = Listed(root, p)

\* C7: of the advisories ingested under one CVE id the one ingested last is
\* the record kept, and after reindex() the index holds that version only:
\* a product only a superseded version listed no longer maps to the id.
C7_LatestWins ==
    pc = "ready" =>
        /\ DOMAIN root["advisory"] = DOMAIN latest
        /\ \A id \in DOMAIN latest : by_id(root, id) = latest[id]
        /\ \A p \in Products : \A v \in Indexed(root, p) :
              v = latest[v.cve_id]
        /\ \A pair \in dropped :
              \A v \in Indexed(root, pair[1]) : v.cve_id # pair[2]

C7_Witness ==
    /\ pc = "ready"
    /\ dropped # {}
    /\ Cardinality(DOMAIN root["advisory"]) > 1

Etag(r) == IF "meta" \in DOMAIN r THEN r["meta"].etag ELSE EmptyDict

Foo == <<"f", "o", "o">>

NameStems ==
    { Foo, <<"F", "o", "o">>, FooBar, <<"x">>, <<>>, <<"-", "1">>,
      <<"a", " ", "b">> }

NameVersions ==
    { <<>>, <<"-">> \o V10, <<"-", "1", ".", "2", ".", "3">>,
      <<"-", "2", "a">>, <<"-", "r", "c">>, <<"-">> }

NameExtensions ==
    {<<>>}
    \cup {SkipExtensions[i] : i \in 1..Len(SkipExtensions)}
    \cup {upper(SkipExtensions[i]) : i \in 1..Len(SkipExtensions)}

NameSuffixes == {<<>>, DrvSuffix, upper(DrvSuffix)}

\* self.name: any non-empty text
Names ==
    {n \in {st \o v \o e \o x : st \in NameStems, v \in NameVersions,
                                 e \in NameExtensions, x \in NameSuffixes} :
        n # <<>>}

DeriveCalls == {[name |-> n, patches |-> <<>>] : n \in Names}

InitDerive ==
    /\ disk = EmptyRoot
    /\ root = NoRoot
    /\ pc = "naming"
    /\ todo = <<>>
    /\ plan = <<>>
    /\ fetched = <<>>
    /\ codes = {}
    /\ now = Start
    /\ drv = NoDrv
    /\ result = {}
    /\ consulted = <<>>
    /\ answered = FALSE
    /\ lastExit = NoExit
    /\ lastRun = [at |-> -1, fresh |-> FALSE]
    /\ latest = EmptyDict
    /\ dropped = {}
    /\ sessions = 0
    /\ ticks = 0
    /\ packs = 0
    /\ clean = 0
    /\ tagged = EmptyDict
    /\ lock = Nobody
    /\ peer = NoPeer
    /\ args \in DeriveCalls
    /\ outcome = NoCall

\* Derive(name=..., patches=...)
Construct ==
    /\ pc = "naming"
    /\ outcome' = Derive(args.name, args.patches)
    /\ pc' = "named"
    /\ UNCHANGED <<disk, root, todo, plan, fetched, codes, now, drv, result,
                   consulted, answered, lastExit, lastRun, latest, dropped,
                   sessions, ticks, packs, clean, tagged, lock, peer, args>>

NextDerive == Construct

SpecDerive == InitDerive /\ [][NextDerive]_vars

\* the name lower-cased, without the build-metadata suffix '.drv'
Normalised(n) ==
    IF endswith(lower(n), DrvSuffix)
    THEN SubSeq(lower(n), 1, Len(n) - Len(DrvSuffix))
    ELSE lower(n)

IsArtifact(n) ==
    \E i \in 1..Len(SkipExtensions) : endswith(n, SkipExtensions[i])

\* C13: a name that, lower-cased and without the suffix '.drv', ends
\* with .tar.gz, .tar.bz2, .tar.xz, .zip, .patch or .diff is rejected with
\* SkipDrv, whatever its letter case and with or without '.drv'.
C13_SkipsSourceArtifacts ==
    (pc = "named" /\ IsArtifact(Normalised(args.name))) => outcome.skip

\* C13 as the code has it (holds): the extensions are looked for at the end
\* of the name as it was given.
C13_SkipsByGivenName ==
    (pc = "named" /\ IsArtifact(args.name)) => outcome.skip

\* the '-' of s that are immediately followed by a digit
VersionDashes(s) == {i \in 1..(Len(s) - 1) : s[i] = "-" /\ IsDigit(s[i + 1])}

FirstOf(S) == CHOOSE i \in S : \A j \in S : i <= j

\* C14: an identity constructed without SkipDrv has a lower-case pname
\* and a non-empty version that starts with a digit; pname is the part of
\* the lower-cased name before the first '-' that a digit follows, version
\* all that follows that '-'; a name without such a '-' is skipped.
C14_IdentityInvariant ==
    pc = "named" =>
        LET n == Normalised(args.name)
        IN  /\ ~outcome.skip =>
                  /\ outcome.pname = lower(outcome.pname)
                  /\ outcome.version # NoVersion
                  /\ IsDigit(outcome.version[1])
                  /\ VersionDashes(n) # {}
                  /\ outcome.pname = SubSeq(n, 1, FirstOf(VersionDashes(n)) - 1)
                  /\ outcome.version =
                        SubSeq(n, FirstOf(VersionDashes(n)) + 1, Len(n))
            /\ VersionDashes(n) = {} => outcome.skip

\* C14 as the code has it (holds): R_VERSION wants a non-empty pname, so
\* the '-' that splits the name is the first one after the first character
\* that a digit follows.
C14_SplitAfterFirstCharacter ==
    pc = "named" =>
        LET n == Normalised(args.name)
            inner == VersionDashes(n) \ {1}
        IN  /\ ~outcome.skip =>
                  /\ outcome.pname = lower(outcome.pname)
                  /\ outcome.version # NoVersion
                  /\ IsDigit(outcome.version[1])
                  /\ inner # {}
                  /\ outcome.pname = SubSeq(n, 1, FirstOf(inner) - 1)
                  /\ outcome.version = SubSeq(n, FirstOf(inner) + 1, Len(n))
            /\ VersionDashes(n) = {} => outcome.skip

(***************************** ordering ************************************)
\* The comparison methods of Derive on three identities.
OrderNames ==
    { Foo \o <<"-">> \o V10,
      Foo \o <<"-">> \o V20,
      Foo \o <<"-", "1", ".", "0", ".", "1">>,
      Foo \o <<"-", "2", ".", "0", "p", "r", "e">>,
      Foo \o <<"-", "0", "1", ".", "0">>,
      Foo \o <<"-", "1", "0">>,
      Foo \o <<"-", "2", ".", "0", "r", "c">>,
      FooBar \o <<"-">> \o V10,
      Foo_Bar \o <<"-">> \o V20,
      <<"b", "a", "r", "-">> \o V10,
      <<"B", "a", "r", "-">> \o V20 }

Identities == {Derive(n, <<>>) : n \in OrderNames}

OrderCalls == [a : Identities, b : Identities, c : Identities]

InitOrder ==
    /\ disk = EmptyRoot
    /\ root = NoRoot
    /\ pc = "comparing"
    /\ todo = <<>>
    /\ plan = <<>>
    /\ fetched = <<>>
    /\ codes = {}
    /\ now = Start
    /\ drv = NoDrv
    /\ result = {}
    /\ consulted = <<>>
    /\ answered = FALSE
    /\ lastExit = NoExit
    /\ lastRun = [at |-> -1, fresh |-> FALSE]
    /\ latest = EmptyDict
    /\ dropped = {}
    /\ sessions = 0
    /\ ticks = 0
    /\ packs = 0
    /\ clean = 0
    /\ tagged = EmptyDict
    /\ lock = Nobody
    /\ peer = NoPeer
    /\ args \in OrderCalls
    /\ outcome = NoCall

\* a < b, a > b, b < a, b < c, a < c
Compare ==
    /\ pc = "comparing"
    /\ outcome' = [lt |-> lt(args.a, args.b), gt |-> gt(args.a, args.b),
                   rlt |-> lt(args.b, args.a), rgt |-> gt(args.b, args.a),
                   next |-> lt(args.b, args.c), far |-> lt(args.a, args.c)]
    /\ pc' = "compared"
    /\ UNCHANGED <<disk, root, todo, plan, fetched, codes, now, drv, result,
                   consulted, answered, lastExit, lastRun, latest, dropped,
                   sessions, ticks, packs, clean, tagged, lock, peer, args>>

NextOrder == Compare

SpecOrder == InitOrder /\ [][NextOrder]_vars

SameKey(a, b) ==
    a.pname = b.pname /\ compare_versions(a.version, b.version) = 0

\* < is a strict total order on (pname, version)
StrictTotalOrder ==
    pc = "compared" =>
        /\ ~(outcome.lt /\ outcome.rlt)
        /\ (outcome.lt \/ outcome.rlt) <=> ~SameKey(args.a, args.b)
        /\ (outcome.lt /\ outcome.next) => outcome.far

\* C17: the identities are in a strict total order by (pname, version),
\* and the two comparison methods agree: a > b exactly when b < a, and
\* a < b and a > b never both hold.
C17_ComparisonsAgree ==
    /\ StrictTotalOrder
    /\ pc = "compared" =>
          /\ outcome.gt <=> outcome.rlt
          /\ outcome.rgt <=> outcome.lt
          /\ ~(outcome.lt /\ outcome.gt)

\* C17 for __lt__ alone and for identities of one product (holds): < is a
\* strict total order, and > is its converse when the product names are
\* equal.
C17_AgreeOnOneProduct ==
    /\ StrictTotalOrder
    /\ (pc = "compared" /\ args.a.pname = args.b.pname) =>
          /\ outcome.gt <=> outcome.rlt
          /\ outcome.rgt <=> outcome.lt
          /\ ~(outcome.lt /\ outcome.gt)

(***************************** ingest order ********************************)
\* add(A); add(B); reindex() against add(B); add(A); reindex(), on the
\* same stored advisories.
Segments == {ArchiveParse(EmptyDict, c) : c \in Contents}

StoredTrees == {EmptyDict} \cup SyncedAdvisories \cup Segments

IngestCalls == [stored : StoredTrees, A : Segments, B : Segments]

InitIngest ==
    /\ disk = EmptyRoot
    /\ root = NoRoot
    /\ pc = "ingesting"
    /\ todo = <<>>
    /\ plan = <<>>
    /\ fetched = <<>>
    /\ codes = {}
    /\ now = Start
    /\ drv = NoDrv
    /\ result = {}
    /\ consulted = <<>>
    /\ answered = FALSE
    /\ lastExit = NoExit
    /\ lastRun = [at |-> -1, fresh |-> FALSE]
    /\ latest = EmptyDict
    /\ dropped = {}
    /\ sessions = 0
    /\ ticks = 0
    /\ packs = 0
    /\ clean = 0
    /\ tagged = EmptyDict
    /\ lock = Nobody
    /\ peer = NoPeer
    /\ args \in IngestCalls
    /\ outcome = NoCall

\* the root after self.add(first); self.add(second); self.reindex()
Ingested(stored, first, second) ==
    reindex(Put(enter(EmptyRoot), "advisory", add(add(stored, first), second)))

Ingest ==
    /\ pc = "ingesting"
    /\ outcome' = [ab |-> Ingested(args.stored, args.A, args.B),
                   ba |-> Ingested(args.stored, args.B, args.A)]
    /\ pc' = "ingested"
    /\ UNCHANGED <<disk, root, todo, plan, fetched, codes, now, drv, result,
                   consulted, answered, lastExit, lastRun, latest, dropped,
                   sessions, ticks, packs, clean, tagged, lock, peer, args>>

NextIngest == Ingest

SpecIngest == InitIngest /\ [][NextIngest]_vars

SameOutcome ==
    /\ outcome.ab["advisory"] = outcome.ba["advisory"]
    /\ outcome.ab["by_product"] = outcome.ba["by_product"]

\* the two segments hold no CVE id with different content
Agree(A, B) == \A id \in DOMAIN A \cap DOMAIN B : A[id] = B[id]

\* C18: for any two parsed segments A and B, also when they hold the same
\* CVE id with different content, add(A), add(B), reindex() leaves the
\* same records and the same index as add(B), add(A), reindex().
C18_OrderIrrelevant == pc = "ingested" => SameOutcome

\* C18 amended: the same for two segments that hold no CVE id with
\* different content; for an id they hold with different content the
\* segment added last decides.
C18_OrderIrrelevantWhenAgreeing ==
    pc = "ingested" =>
        /\ Agree(args.A, args.B) => SameOutcome
        /\ \A id \in DOMAIN args.B :
              outcome.ab["advisory"][id] = args.B[id]
        /\ \A id \in DOMAIN args.A :
              outcome.ba["advisory"][id] = args.A[id]

\* two different non-empty segments without a conflict were added in both
\* orders to a store that held another version of one of their records
C18_Witness ==
    /\ pc = "ingested"
    /\ args.A # EmptyDict /\ args.B # EmptyDict /\ args.A # args.B
    /\ Agree(args.A, args.B)
    /\ \E id \in DOMAIN args.stored \cap DOMAIN args.A :
          args.stored[id] # args.A[id]
    /\ SameOutcome

(***************************** full refresh ********************************)
\* update() on a store whose last update is seven days old or older, as a
\* function of the answers of the mirror.
RefreshRoots ==
    {enter(EmptyRoot)}
    \cup {Put(reindex(Put(enter(EmptyRoot), "advisory", a)), "meta",
              [pack_counter |-> 1, last_update |-> Start - Week, etag |-> e]) :
            a \in {ArchiveParse(EmptyDict, <<Item(CVE2, <<Node(FooBar, {V10})>>)>>)},
            e \in {EmptyDict, [u \in {Url(Modified)} |-> "etag-1"]}}

\* what a yearly archive may answer: nothing new, one advisory, a failure
YearAnswers ==
    {[status |-> 200, content |-> c, headers |-> EmptyDict] :
        c \in {<<>>, <<Item(CVE1, <<Node(FooBar, {V10})>>)>>}}
    \cup {[status |-> st, content |-> <<>>, headers |-> EmptyDict] :
            st \in FailStatus}

Years == {available_archives[i] : i \in 1..Len(available_archives)}

\* the call of update() on root r, the yearly archives answering with ya
\* and 'modified' with m
RefreshCall(r, ya, m) ==
    [root |-> r, now |-> Start,
     answers |-> [a \in Years \cup {Modified} |->
                    IF a = Modified THEN m ELSE ya[a]]]

InitRefresh ==
    /\ disk = EmptyRoot
    /\ root = NoRoot
    /\ pc = "refreshing"
    /\ todo = <<>>
    /\ plan = <<>>
    /\ fetched = <<>>
    /\ codes = {}
    /\ now = Start
    /\ drv = NoDrv
    /\ result = {}
    /\ consulted = <<>>
    /\ answered = FALSE
    /\ lastExit = NoExit
    /\ lastRun = [at |-> -1, fresh |-> FALSE]
    /\ latest = EmptyDict
    /\ dropped = {}
    /\ sessions = 0
    /\ ticks = 0
    /\ packs = 0
    /\ clean = 0
    /\ tagged = EmptyDict
    /\ lock = Nobody
    /\ peer = NoPeer
    /\ \E r \in RefreshRoots :
          \E ya \in [Years -> YearAnswers] :
            \E m \in Responses(Modified, headers_for(r["meta"], Url(Modified))) :
              args = RefreshCall(r, ya, m)
    /\ outcome = NoCall

\* nvd.update()
Refresh ==
    /\ pc = "refreshing"
    /\ outcome' = update(args.root, args.now, args.answers)
    /\ pc' = "refreshed"
    /\ UNCHANGED <<disk, root, todo, plan, fetched, codes, now, drv, result,
                   consulted, answered, lastExit, lastRun, latest, dropped,
                   sessions, ticks, packs, clean, tagged, lock, peer, args>>

NextRefresh == Refresh

SpecRefresh == InitRefresh /\ [][NextRefresh]_vars

IsPrefix(p, q) == Len(p) <= Len(q) /\ SubSeq(q, 1, Len(p)) = p

\* C20: a full refresh asks for the yearly archives in ascending order of
\* the year and for 'modified' last, and when update() has returned, the
\* record kept for a CVE id that 'modified' holds is the one of 'modified',
\* whatever the yearly archives hold for that id.
C20_ModifiedLast ==
    pc = "refreshed" =>
        /\ IsPrefix(outcome.fetched, SixYears \o <<Modified>>)
        /\ ~outcome.raised =>
              /\ outcome.fetched = SixYears \o <<Modified>>
              /\ args.answers[Modified].status = 200 =>
                    \A id \in {CVE1, CVE2} :
                        HasItem(args.answers[Modified].content, id) =>
                            by_id(outcome.root, id) = VulnerabilityParse(
                                LastItem(args.answers[Modified].content, id))

\* a yearly archive and 'modified' held different versions of one advisory
C20_Witness ==
    /\ pc = "refreshed"
    /\ ~outcome.raised
    /\ args.answers[Modified].status = 200
    /\ HasItem(args.answers[Modified].content, CVE1)
    /\ \E y \in Years :
          /\ HasItem(args.answers[y].content, CVE1)
          /\ VulnerabilityParse(LastItem(args.answers[y].content, CVE1))
                # by_id(outcome.root, CVE1)

(***************************** one fetch ***********************************)
\* One pass of the loop of update() as a function of the open root, the
\* archive and the response of the mirror.
\* A validator is stored by a fresh response only, which also sets
\* last_update: a store at the epoch holds none.
FetchMetas ==
    {[pack_counter |-> 1, last_update |-> lu, etag |-> e] :
        lu \in {Start - 2 * Hour, Start - Week},
        e \in {EmptyDict} \cup {[u \in {Url(Modified)} |-> k] : k \in Tokens}}

\* the root of a new store, or of one that earlier sessions have synced
FetchRoots ==
    {enter(EmptyRoot)}
    \cup {Put(reindex(Put(enter(EmptyRoot), "advisory", a)), "meta", m) :
            a \in {EmptyDict} \cup SyncedAdvisories, m \in FetchMetas}

FetchCalls ==
    UNION {{[root |-> r, name |-> a, resp |-> x, now |-> Start] :
               x \in Responses(a, headers_for(r["meta"], Url(a)))} :
           r \in FetchRoots, a \in {YearArchive(current), Modified}}

InitFetch ==
    /\ disk = EmptyRoot
    /\ root = NoRoot
    /\ pc = "fetching"
    /\ todo = <<>>
    /\ plan = <<>>
    /\ fetched = <<>>
    /\ codes = {}
    /\ now = Start
    /\ drv = NoDrv
    /\ result = {}
    /\ consulted = <<>>
    /\ answered = FALSE
    /\ lastExit = NoExit
    /\ lastRun = [at |-> -1, fresh |-> FALSE]
    /\ latest = EmptyDict
    /\ dropped = {}
    /\ sessions = 0
    /\ ticks = 0
    /\ packs = 0
    /\ clean = 0
    /\ tagged = EmptyDict
    /\ lock = Nobody
    /\ peer = NoPeer
    /\ args \in FetchCalls
    /\ outcome = NoCall

\* arch.download(self.mirror, self._root['meta']); self.add(arch)
Fetch ==
    /\ pc = "fetching"
    /\ outcome' = update_pass(args.root, args.name, args.resp, args.now)
    /\ pc' = "fetched"
    /\ UNCHANGED <<disk, root, todo, plan, fetched, codes, now, drv, result,
                   consulted, answered, lastExit, lastRun, latest, dropped,
                   sessions, ticks, packs, clean, tagged, lock, peer, args>>

NextFetch == Fetch

SpecFetch == InitFetch /\ [][NextFetch]_vars

\* the validator a response carries, as the request headers of the next
\* fetch of the URL would show it
Precondition(resp) ==
    IF "ETag" \in DOMAIN resp.headers
    THEN [h \in {"If-None-Match"} |-> resp.headers["ETag"]]
    ELSE EmptyDict

NotModified ==
    (pc = "fetched" /\ args.resp.status = 304) =>
        /\ ~outcome.raised
        /\ outcome.root["advisory"] = args.root["advisory"]
        /\ outcome.root["meta"].etag = args.root["meta"].etag
        /\ outcome.root["meta"].last_update = args.root["meta"].last_update

\* C12: a 'not modified' response leaves the records, the validator of
\* the URL and lastUpdate as they are; after a fresh-content response the
\* validator stored for the URL is the validator of that response, so that
\* the next request for the URL carries it, and lastUpdate is the current
\* time.
C12_ConditionalFetch ==
    /\ NotModified
    /\ (pc = "fetched" /\ args.resp.status = 200) =>
          /\ ~outcome.raised
          /\ headers_for(outcome.root["meta"], Url(args.name))
                = Precondition(args.resp)
          /\ outcome.root["meta"].last_update = args.now

\* C12 for the responses that carry a validator (holds): a fresh-content
\* response with an ETag header replaces the stored validator; one without
\* leaves the validator of an earlier response in place.
C12_FreshWithValidator ==
    /\ NotModified
    /\ (pc = "fetched" /\ args.resp.status = 200) =>
          /\ ~outcome.raised
          /\ headers_for(outcome.root["meta"], Url(args.name))
                = IF "ETag" \in DOMAIN args.resp.headers
                  THEN Precondition(args.resp)
                  ELSE headers_for(args.root["meta"], Url(args.name))
          /\ outcome.root["meta"].last_update = args.now
          /\ \A id \in DOMAIN outcome.advisories :
                outcome.root["advisory"][id] = outcome.advisories[id]

(***************************** packing **************************************)
\* Sessions on a store that a first session has synced and committed, far
\* enough to reach the pack threshold.  The store was synced either in the
\* current hour (update() has nothing to fetch) or two hours ago (update()
\* asks for 'modified' until a response is fresh).
SyncedStores ==
    { Put(reindex(Put(enter(EmptyRoot), "advisory", a)), "meta",
          [pack_counter |-> 1, last_update |-> Start, etag |-> e]) :
        a \in SyncedAdvisories,
        e \in {EmptyDict, [u \in {Url(Modified)} |-> "etag-1"]} }

InitPack ==
    /\ disk \in SyncedStores
    /\ root = NoRoot
    /\ pc = "closed"
    /\ todo = <<>>
    /\ plan = <<>>
    /\ fetched = <<>>
    /\ codes = {}
    /\ now \in {Start, Start + 2 * Hour}
    /\ drv = NoDrv
    /\ result = {}
    /\ consulted = <<>>
    /\ answered = FALSE
    /\ lastExit = NoExit
    /\ lastRun = [at |-> Start, fresh |-> TRUE]
    /\ latest = EmptyDict
    /\ dropped = {}
    /\ sessions = 1
    /\ ticks = 0
    /\ packs = 0
    /\ clean = 1
    /\ tagged = EmptyDict
    /\ lock = Nobody
    /\ peer = NoPeer
    /\ args = NoCall
    /\ outcome = NoCall

EnterPack == EnterUpTo(MaxPackSessions)

NextPack ==
    \/ EnterPack
    \/ UpdateBegin
    \/ UpdateArchive
    \/ UpdateReindex
    \/ Query
    \/ ExitClean
    \/ ExitFailed

SpecPack == InitPack /\ [][NextPack]_vars

CleanExit == pc \in InSession /\ pc' = "closed" /\ lastExit'.how = "clean"
FailedExit == pc \in InSession /\ pc' = "closed" /\ lastExit'.how = "failed"

\* what packing must leave alone: a failed exit keeps the committed store
\* and does not pack; a clean exit, packing or not, commits the records,
\* the index, the validators and lastUpdate of the session as they are
PackFrame ==
    /\ [][FailedExit => (packs' = packs /\ disk' = disk)]_vars
    /\ [][CleanExit =>
            /\ disk'["advisory"] = root["advisory"]
            /\ disk'["by_product"] = root["by_product"]
            /\ disk'["meta"].etag = root["meta"].etag
            /\ disk'["meta"].last_update = root["meta"].last_update]_vars
    /\ [][packs' # packs => CleanExit]_vars

\* C11: the store is packed at the exit of the 25th, 50th, ... session
\* that exits cleanly and at no other exit; a failed exit neither packs nor
\* advances the persisted counter; packing changes no record, index entry,
\* validator or lastUpdate.
C11_PackEvery25th ==
    /\ PackFrame
    /\ [][CleanExit => (packs' # packs <=> clean' % PackThreshold = 0)]_vars

\* C11 as the code has it (holds): the counter is tested after it is
\* incremented and must exceed 25, so the store is packed at the exit of
\* the 26th, 52nd, ... clean session.
C11_PackEvery26th ==
    /\ PackFrame
    /\ [][CleanExit =>
            (packs' # packs <=> clean' % (PackThreshold + 1) = 0)]_vars

(***************************** two processes *******************************)
\* Two processes on one cache directory.  The first goes through its
\* session step by step, the second (peer) takes its update() in one step.
\* FileStorage locks Data.fs.lock when it is opened and holds it until the
\* storage object is gone; the model lets it go at the end of __exit__,
\* the earliest moment, which leaves the other process the most room.  The
\* store was synced two hours ago: update() asks for 'modified'.
PeerInSession == {"entered", "raised", "ready"}

\* the answers the mirror may give to the archives update() asks for
Answers(r, t) ==
    LET archives == relevant_archives(r, t)
        asked == {archives[i] : i \in 1..Len(archives)}
        all == UNION {Responses(a, headers_for(r["meta"], Url(a))) : a \in asked}
    IN  {f \in [asked -> all] :
            \A a \in asked :
                f[a] \in Responses(a, headers_for(r["meta"], Url(a)))}

InitTwo ==
    /\ disk \in SyncedStores
    /\ root = NoRoot
    /\ pc = "closed"
    /\ todo = <<>>
    /\ plan = <<>>
    /\ fetched = <<>>
    /\ codes = {}
    /\ now = Start + 2 * Hour
    /\ drv = NoDrv
    /\ result = {}
    /\ consulted = <<>>
    /\ answered = FALSE
    /\ lastExit = NoExit
    /\ lastRun = [at |-> Start, fresh |-> TRUE]
    /\ latest = EmptyDict
    /\ dropped = {}
    /\ sessions = 1
    /\ ticks = 0
    /\ packs = 0
    /\ clean = 1
    /\ tagged = EmptyDict
    /\ lock = Nobody
    /\ peer = NoPeer
    /\ args = NoCall
    /\ outcome = NoCall

\* NVD.__enter__ of the first process while the lock is held: FileStorage
\* raises LockError and the with statement is not entered
EnterLocked ==
    /\ pc = "closed"
    /\ sessions < MaxSessions
    /\ locked(lock)
    /\ lastExit' = [how |-> "locked", dirty |-> FALSE, tagged |-> FALSE]
    /\ sessions' = sessions + 1
    /\ UNCHANGED <<disk, root, pc, todo, plan, fetched, codes, now, drv,
                   result, consulted, answered, lastRun, latest, dropped,
                   ticks, packs, clean, tagged, lock, peer, args, outcome>>

\* NVD.__enter__ of the peer
PeerEnter ==
    /\ peer.pc \in {"closed", "locked"}
    /\ sessions < MaxSessions
    /\ sessions' = sessions + 1
    /\ IF locked(lock)
       THEN /\ peer' = [pc |-> "locked", root |-> NoRoot]
            /\ lock' = lock
       ELSE /\ peer' = [pc |-> "entered", root |-> enter(disk)]
            /\ lock' = "peer"
    /\ UNCHANGED <<disk, root, pc, todo, plan, fetched, codes, now, drv,
                   result, consulted, answered, lastExit, lastRun, latest,
                   dropped, ticks, packs, clean, tagged, args, outcome>>

\* nvd.update() of the peer
PeerUpdate ==
    /\ peer.pc = "entered"
    /\ \E answers \in Answers(peer.root, now) :
          LET u == update(peer.root, now, answers)
          IN  peer' = [pc |-> IF u.raised THEN "raised" ELSE "ready",
                       root |-> u.root]
    /\ UNCHANGED <<disk, root, pc, todo, plan, fetched, codes, now, drv,
                   result, consulted, answered, lastExit, lastRun, latest,
                   dropped, sessions, ticks, packs, clean, tagged, lock,
                   args, outcome>>

\* NVD.__exit__ of the peer
PeerExit(failed) ==
    /\ peer.pc \in PeerInSession
    /\ ~failed => peer.pc = "ready"
    /\ peer.pc = "raised" => failed
    /\ disk' = exit(disk, peer.root, failed).disk
    /\ packs' = IF exit(disk, peer.root, failed).packed THEN packs + 1 ELSE packs
    /\ clean' = IF failed THEN clean ELSE clean + 1
    /\ peer' = NoPeer
    /\ lock' = Nobody
    /\ UNCHANGED <<root, pc, todo, plan, fetched, codes, now, drv, result,
                   consulted, answered, lastExit, lastRun, latest, dropped,
                   sessions, ticks, tagged, args, outcome>>

PeerExitClean == PeerExit(FALSE)
PeerExitFailed == PeerExit(TRUE)

NextTwo ==
    \/ Enter
    \/ EnterLocked
    \/ UpdateBegin
    \/ UpdateArchive
    \/ UpdateReindex
    \/ Query
    \/ ExitClean
    \/ ExitFailed
    \/ PeerEnter
    \/ PeerUpdate
    \/ PeerExitClean
    \/ PeerExitFailed

SpecTwo == InitTwo /\ [][NextTwo]_vars

\* C15: two processes never both hold the store open; an attempt to open
\* it while the other process is in its session fails in __enter__ with
\* nothing changed; and while a process is in its session the committed
\* store is not changed by the other, so what a process commits is its own
\* sync on top of the store it opened.
C15_OneWriter ==
    /\ [](~(pc \in InSession /\ peer.pc \in PeerInSession))
    /\ [][(pc \in InSession /\ pc' \in InSession) => disk' = disk]_vars
    /\ [][(peer.pc \in PeerInSession /\ peer'.pc \in PeerInSession) =>
            disk' = disk]_vars
    /\ [][(peer.pc # "locked" /\ peer'.pc = "locked") =>
            /\ pc \in InSession
            /\ peer'.root = NoRoot
            /\ disk' = disk /\ root' = root /\ lock' = lock]_vars
    /\ [][(lastExit.how # "locked" /\ lastExit'.how = "locked") =>
            /\ peer.pc \in PeerInSession
            /\ pc' = "closed" /\ root' = NoRoot
            /\ disk' = disk /\ peer' = peer /\ lock' = lock]_vars

\* the peer was turned away while the first process had ingested records
\* it had not yet committed
C15_Witness ==
    /\ peer.pc = "locked"
    /\ pc = "ready"
    /\ root["advisory"] # StoredAdvisory

(***************************** matching *************************************)
\* Derive.check() as a function of the store and the derivation: the store
\* is what a session leaves after update(), the derivation any the caller
\* may build.
CVE12 == <<"C", "V", "E", "-", "2", "0", "2", "1", "-", "1", "2">>
Vuln(cve_id, nodes) == [cve_id |-> cve_id, nodes |-> nodes]

\* per CVE id, the versions of its advisory a store may hold
StoreChoices ==
    [id \in {CVE1, CVE2, CVE12} |->
        IF id = CVE1
        THEN {Vuln(CVE1, <<Node(FooBar, {V10})>>),
              Vuln(CVE1, <<Node(Foo_Bar, {V10})>>),
              Vuln(CVE1, <<Node(FooBar, {V20}), Node(Foo_Bar, {V10, V20})>>)}
        ELSE IF id = CVE2
        THEN {Vuln(CVE2, <<Node(FooBar, {V10})>>),
              Vuln(CVE2, <<Node(Foo_Bar, {V10})>>)}
        ELSE {Vuln(CVE12, <<Node(FooBar, {V10, V20})>>)}]

StoredAdvisories ==
    UNION {{f \in [ids -> UNION {StoreChoices[id] : id \in ids}] :
                \A id \in ids : f[id] \in StoreChoices[id]} :
           ids \in SUBSET {CVE1, CVE2, CVE12}}

Stores ==
    {reindex(Put(enter(EmptyRoot), "advisory", a)) : a \in StoredAdvisories}

DotPatch == <<".", "p", "a", "t", "c", "h">>

PatchTexts ==
    { <<>>,
      CVE1,
      lower(CVE1) \o DotPatch,
      <<"f", "i", "x", "-", "C", "v", "e">> \o SubSeq(CVE2, 4, 10) \o DotPatch,
      CVE12 \o DotPatch,
      lower(CVE1) \o <<" ">> \o CVE2,
      <<"C", "V", "E", "-", "2", "0", "2", "-", "1">>,
      lower(CVE2) \o <<" ">> \o lower(CVE12) \o <<" ">> \o lower(CVE1) }

DrvNames ==
    { FooBar \o <<"-">> \o V10,
      FooBar \o <<"-">> \o V20,
      Foo_Bar \o <<"-">> \o V10 \o DrvSuffix,
      <<"F", "o", "o", "-", "B", "a", "r", "-">> \o V10 }

Derivations ==
    {d \in {Derive(n, t) : n \in DrvNames, t \in PatchTexts} : ~d.skip}

InitCheck ==
    /\ disk = EmptyRoot
    /\ root \in Stores
    /\ pc = "matching"
    /\ todo = <<>>
    /\ plan = <<>>
    /\ fetched = <<>>
    /\ codes = {}
    /\ now = Start
    /\ drv \in Derivations
    /\ result = {}
    /\ consulted = <<>>
    /\ answered = FALSE
    /\ lastExit = NoExit
    /\ lastRun = [at |-> -1, fresh |-> FALSE]
    /\ latest = EmptyDict
    /\ dropped = {}
    /\ sessions = 0
    /\ ticks = 0
    /\ packs = 0
    /\ clean = 0
    /\ tagged = EmptyDict
    /\ lock = Nobody
    /\ peer = NoPeer
    /\ args = NoCall
    /\ outcome = NoCall

\* drv.check(nvd)
CheckDrv ==
    /\ pc = "matching"
    /\ LET c == check(drv, root)
       IN  /\ result' = c.ret
           /\ consulted' = c.consulted
    /\ root' = check_root(drv, root)
    /\ answered' = TRUE
    /\ pc' = "matched"
    /\ UNCHANGED <<disk, todo, plan, fetched, codes, now, drv, lastExit,
                   lastRun, latest, dropped, sessions, ticks, packs,
                   clean, tagged, lock, peer, args, outcome>>

NextCheck == CheckDrv

SpecCheck == InitCheck /\ [][NextCheck]_vars

\* text holds the CVE identifier id, in any letter case, as a whole
\* identifier: no further digit follows it
Mentions(text, id) ==
    \E i \in 1..Len(text) :
        /\ i + Len(id) - 1 <= Len(text)
        /\ \A k \in 1..Len(id) : LowerChar(text[i + k - 1]) = LowerChar(id[k])
        /\ i + Len(id) <= Len(text) => ~IsDigit(text[i + Len(id)])

\* the stored records with a node of product p whose predicate accepts
\* the version of drv, and those of them no patch of drv remediates
Matching(p) == {v \in Records(root) : match(v, p, drv.version)}
Unremediated(p) == {v \in Matching(p) : ~Mentions(drv.patches, v.cve_id)}

Alternative(p) == [i \in 1..Len(p) |-> IF p[i] = "-" THEN "_" ELSE p[i]]

\* C8: check() never returns the record of a CVE identifier that the patch
\* text of the derivation holds, in any letter case.
C8_PatchSuppression ==
    pc = "matched" =>
        \A v \in result : ~Mentions(drv.patches, v.cve_id)

Verbatim(text, id) ==
    \E i \in 1..Len(text) :
        i + Len(id) - 1 <= Len(text) /\ SubSeq(text, i, i + Len(id) - 1) = id

\* a matching record is suppressed by a patch that names it in lower case,
\* and another record is reported
C8_Witness ==
    /\ pc = "matched"
    /\ \E v \in Matching(drv.pname) :
          Mentions(drv.patches, v.cve_id) /\ ~Verbatim(drv.patches, v.cve_id)
    /\ result # {}

\* C9: check() returns the unremediated matches of the first product
\* candidate (the product name, then its spelling with '_' for '-') that
\* has one, and the empty set when none has.
C9_FirstCandidateOnly ==
    pc = "matched" =>
        result = IF Unremediated(drv.pname) # {}
                 THEN Unremediated(drv.pname)
                 ELSE IF Alternative(drv.pname) # drv.pname
                 THEN Unremediated(Alternative(drv.pname))
                 ELSE {}

C9_Witness ==
    /\ pc = "matched"
    /\ Unremediated(drv.pname) # {}
    /\ Alternative(drv.pname) # drv.pname
    /\ Unremediated(Alternative(drv.pname)) \ Unremediated(drv.pname) # {}
    /\ result = Unremediated(drv.pname)

\* C10: when the primary product name has a record that matches the
\* version, the alternative spelling is not consulted and no record that
\* is indexed under the alternative spelling only is returned.
C10_PrimaryMatchStops ==
    (pc = "matched" /\ Matching(drv.pname) # {}) =>
        /\ consulted = <<drv.pname>>
        /\ \A v \in result : drv.pname \in ProductsOf(v)

\* C10 amended: the same when the primary product name has a matching
\* record that no patch remediates; the alternative spelling is consulted
\* exactly when the primary name has no unremediated match.
C10_UnremediatedMatchStops ==
    pc = "matched" =>
        /\ Unremediated(drv.pname) # {} =>
              /\ consulted = <<drv.pname>>
              /\ \A v \in result : drv.pname \in ProductsOf(v)
        /\ (Unremediated(drv.pname) = {} /\ Alternative(drv.pname) # drv.pname) =>
              consulted = <<drv.pname, Alternative(drv.pname)>>

C10_Witness ==
    /\ pc = "matched"
    /\ Unremediated(drv.pname) # {}
    /\ Alternative(drv.pname) # drv.pname
    /\ Matching(Alternative(drv.pname)) \ Matching(drv.pname) # {}
    /\ consulted = <<drv.pname>>

\* C16: check() and the affected() calls it makes leave the records, the
\* product index and the sync metadata of the store as they are, and for a
\* derivation none of whose product names is in the index (a store without
\* records included) check() returns the empty set.
C16_PureRead ==
    /\ [][(pc = "matching" /\ pc' = "matched") =>
            /\ root'["advisory"] = root["advisory"]
            /\ root'["by_product"] = root["by_product"]
            /\ root'["meta"] = root["meta"]
            /\ disk' = disk]_vars
    /\ []((pc = "matched"
           /\ \A i \in 1..Len(product_candidates(drv.pname)) :
                 product_candidates(drv.pname)[i] \notin DOMAIN root["by_product"])
          => result = {})

\* a derivation with two product names was checked against a store
\* without records
C16_Witness ==
    /\ pc = "matched"
    /\ root["advisory"] = EmptyDict
    /\ consulted = <<drv.pname, Alternative(drv.pname)>>
    /\ Alternative(drv.pname) # drv.pname
    /\ result = {}

====
